---------------------------- MODULE Spec2Model ----------------------------
(***************************************************************************)
(* Model of sensor_position_dataset_helper: the rotation applicator, the   *)
(* coordinate alignment, the subject-specific mounting fixups of session   *)
(* assembly, the test windower, the label scoping and the dataset facades. *)
(*                                                                         *)
(* A table (pandas DataFrame) is a record                                  *)
(*     [cols |-> sequence of column labels, index |-> sequence of row      *)
(*      labels, rows |-> sequence of rows, each a sequence of cell values] *)
(* Column labels of a multi-sensor table are pairs <<sensor, channel>>.    *)
(* Column labels are distinct within one table.  Cell values are integers. *)
(* A sensor name is the sequence of its tokens, "_" being a token of its   *)
(* own: "l_cavity" is <<"l", "_", "cavity">> and "sync" is <<"sync">>.     *)
(***************************************************************************)
EXTENDS Integers, Sequences, FiniteSets, TLC

VARIABLES
    pc,                \* position of the modelled call sequence
    dataset,           \* rotate_dataset: argument `dataset`
    rotation,          \* rotate_dataset: argument `rotation`
    rotated_single,    \* rotate_dataset(dataset, one rotation): the outcome
    rotated_dataset,   \* rotate_dataset(dataset, mapping): the outcome
    multi_sensor_data, \* align_coordinates: argument
    aligned,           \* align_coordinates(multi_sensor_data): the outcome
    raw_df,            \* the calibrated, synchronised session of the participant
    meta_data,         \* meta_data.json of the participant: sensors, imu_tests
    manual_labels,     \* manual_stride_border.csv of the participant
    mocap_test,        \* get_mocap_test(participant, test): the outcome
    facade,            \* the dataset facade and its selection
    session_df,        \* get_session_df(participant): the outcome
    imu_test0,         \* get_imu_test(.., padding_s=0): the outcome
    imu_test,          \* get_imu_test(.., padding_s=data_padding_s): the outcome
    mocap_data,        \* SensorPositionDatasetMocap.data: the outcome
    labels_for_test,   \* get_manual_labels_for_test(..): the outcome
    stride_list,       \* SensorPositionDatasetMocap.segmented_stride_list_: the outcome
    accessed,          \* the property of the facade that was accessed
    outcome,           \* its outcome
    _DATA,             \* Consts._DATA: the registered data folder
    file_system        \* the directories that exist, and the metadata of the subjects

rotVars == <<dataset, rotation, rotated_single, rotated_dataset>>
alignVars == <<multi_sensor_data, aligned>>
\* the files of the participant and the facade: no action changes them
worldVars == <<raw_df, meta_data, manual_labels, mocap_test, facade>>
windowVars == <<session_df, imu_test0, imu_test, mocap_data>>
labelVars == <<labels_for_test, stride_list>>
facadeVars == <<accessed, outcome>>
folderVars == <<_DATA, file_system>>
vars == <<pc, rotVars, alignVars, worldVars, windowVars, labelVars, facadeVars, folderVars>>

\* the variables outside each group
notRotVars == <<alignVars, worldVars, windowVars, labelVars, facadeVars, folderVars>>
notAlignVars == <<rotVars, worldVars, windowVars, labelVars, facadeVars, folderVars>>
notWindowVars == <<rotVars, alignVars, worldVars, labelVars, facadeVars, folderVars>>
notLabelVars == <<rotVars, alignVars, worldVars, windowVars, facadeVars, folderVars>>
notFacadeVars == <<rotVars, alignVars, worldVars, windowVars, labelVars, folderVars>>

\* the value of a variable that the running scenario does not use
Idle == << >>

RotIdle == dataset = Idle /\ rotation = Idle /\ rotated_single = Idle /\ rotated_dataset = Idle
AlignIdle == multi_sensor_data = Idle /\ aligned = Idle
WorldIdle ==
    /\ raw_df = Idle /\ meta_data = Idle /\ manual_labels = Idle
    /\ mocap_test = Idle /\ facade = Idle
WindowIdle ==
    /\ session_df = Idle /\ imu_test0 = Idle /\ imu_test = Idle /\ mocap_data = Idle
LabelIdle == labels_for_test = Idle /\ stride_list = Idle
FacadeIdle == accessed = Idle /\ outcome = Idle
FolderIdle == _DATA = Idle /\ file_system = Idle

---------------------------------------------------------------------------
(* Generic helpers                                                         *)

Range(s) == {s[i] : i \in 1..Len(s)}

IsInjective(s) == \A i, j \in 1..Len(s) : s[i] = s[j] => i = j

RECURSIVE SeqsOver(_)
\* all orderings of the finite set S
SeqsOver(S) ==
    IF S = {} THEN {<< >>}
    ELSE UNION {{<<x>> \o t : t \in SeqsOver(S \ {x})} : x \in S}

RECURSIVE Flatten(_)
Flatten(ss) == IF ss = << >> THEN << >> ELSE Head(ss) \o Flatten(Tail(ss))

\* Index.unique: the distinct elements in the order of their first appearance
Unique(s) ==
    LET firsts == SelectSeq([i \in 1..Len(s) |-> <<i, s[i]>>],
                            LAMBDA p : \A j \in 1..(p[1] - 1) : s[j] # p[2])
    IN [k \in 1..Len(firsts) |-> firsts[k][2]]

\* F(x), x being evaluated once however often F uses it: the statements of a
\* function body run one after the other, each on the value of the last
Then(x, F(_)) == CHOOSE y \in {F(v) : v \in {x}} : TRUE

---------------------------------------------------------------------------
(* internal_helpers.py: channel names (SF_GYR, SF_ACC, SF_COLS; a name      *)
(* cannot start with SF_ here) and the rotation table                      *)

SFGYR == <<"gyr_x", "gyr_y", "gyr_z">>
SFACC == <<"acc_x", "acc_y", "acc_z">>
SFCOLS == SFACC \o SFGYR

\* the table with the identity for the left insole sensor
COORDINATE_TRANSFORMATION_DICT_insole_unrotated ==
    [ qualisis_lateral_nilspodv1 |->
        [ left_sensor  |-> << <<0, 1, 0>>, <<0, 0, 1>>, <<1, 0, 0>> >>,
          right_sensor |-> << <<0, -1, 0>>, <<0, 0, -1>>, <<1, 0, 0>> >> ],
      qualisis_medial_nilspodv1 |->
        [ left_sensor  |-> << <<0, -1, 0>>, <<0, 0, -1>>, <<1, 0, 0>> >>,
          right_sensor |-> << <<0, 1, 0>>, <<0, 0, 1>>, <<1, 0, 0>> >> ],
      qualisis_instep_nilspodv1 |->
        [ left_sensor  |-> << <<-1, 0, 0>>, <<0, -1, 0>>, <<0, 0, 1>> >>,
          right_sensor |-> << <<-1, 0, 0>>, <<0, -1, 0>>, <<0, 0, 1>> >> ],
      qualisis_cavity_nilspodv1 |->
        [ left_sensor  |-> << <<-1, 0, 0>>, <<0, -1, 0>>, <<0, 0, 1>> >>,
          right_sensor |-> << <<-1, 0, 0>>, <<0, -1, 0>>, <<0, 0, 1>> >> ],
      qualisis_heel_nilspodv1 |->
        [ left_sensor  |-> << <<0, 0, -1>>, <<0, 1, 0>>, <<1, 0, 0>> >>,
          right_sensor |-> << <<0, 0, -1>>, <<0, 1, 0>>, <<1, 0, 0>> >> ],
      qualisis_insole_nilspodv1 |->
        [ left_sensor  |-> << <<1, 0, 0>>, <<0, 1, 0>>, <<0, 0, 1>> >>,
          right_sensor |-> << <<0, -1, 0>>, <<1, 0, 0>>, <<0, 0, 1>> >> ] ]

\* COORDINATE_TRANSFORMATION_DICT of internal_helpers.py
COORDINATE_TRANSFORMATION_DICT ==
    [ qualisis_lateral_nilspodv1 |->
        [ left_sensor  |-> << <<0, 1, 0>>, <<0, 0, 1>>, <<1, 0, 0>> >>,
          right_sensor |-> << <<0, -1, 0>>, <<0, 0, -1>>, <<1, 0, 0>> >> ],
      qualisis_medial_nilspodv1 |->
        [ left_sensor  |-> << <<0, -1, 0>>, <<0, 0, -1>>, <<1, 0, 0>> >>,
          right_sensor |-> << <<0, 1, 0>>, <<0, 0, 1>>, <<1, 0, 0>> >> ],
      qualisis_instep_nilspodv1 |->
        [ left_sensor  |-> << <<-1, 0, 0>>, <<0, -1, 0>>, <<0, 0, 1>> >>,
          right_sensor |-> << <<-1, 0, 0>>, <<0, -1, 0>>, <<0, 0, 1>> >> ],
      qualisis_cavity_nilspodv1 |->
        [ left_sensor  |-> << <<-1, 0, 0>>, <<0, -1, 0>>, <<0, 0, 1>> >>,
          right_sensor |-> << <<-1, 0, 0>>, <<0, -1, 0>>, <<0, 0, 1>> >> ],
      qualisis_heel_nilspodv1 |->
        [ left_sensor  |-> << <<0, 0, -1>>, <<0, 1, 0>>, <<1, 0, 0>> >>,
          right_sensor |-> << <<0, 0, -1>>, <<0, 1, 0>>, <<1, 0, 0>> >> ],
      qualisis_insole_nilspodv1 |->
        [ left_sensor  |-> << <<0, 1, 0>>, <<-1, 0, 0>>, <<0, 0, 1>> >>,
          right_sensor |-> << <<0, -1, 0>>, <<1, 0, 0>>, <<0, 0, 1>> >> ] ]

---------------------------------------------------------------------------
(* Tables                                                                  *)

\* The outcome of a call: the returned value, or the exception it raised
Ok(v) == [status |-> "ok", value |-> v]
Raise(e) == [status |-> e, value |-> << >>]

KeyError == Raise("KeyError")
ValueError == Raise("ValueError")

IsOk(res) == res.status = "ok"

\* Optional[Rotation]: a 3x3 matrix, or None
None == << >>

NRows(t) == Len(t.rows)

\* position of the column labelled `label`
ColIdx(t, label) == CHOOSE i \in 1..Len(t.cols) : t.cols[i] = label

\* df[labels].to_numpy(): the cells of the named columns, in the order named
ToNumpy(t, labels) ==
    [r \in 1..NRows(t) |-> [k \in 1..Len(labels) |-> t.rows[r][ColIdx(t, labels[k])]]]

\* df[labels] = arr: column labels[k] takes column k of arr; every label exists
SetColumns(t, labels, arr) ==
    [t EXCEPT !.rows =
        [r \in 1..NRows(t) |->
            [c \in 1..Len(t.cols) |->
                IF t.cols[c] \in Range(labels)
                THEN arr[r][CHOOSE k \in 1..Len(labels) : labels[k] = t.cols[c]]
                ELSE t.rows[r][c]]]]

\* df[labels]: the table of the named columns, in the order named
Reindex(t, labels) == [t EXCEPT !.cols = labels, !.rows = ToNumpy(t, labels)]

\* dataset.columns.unique(level=0)
SensorNames(t) == Unique([i \in 1..Len(t.cols) |-> t.cols[i][1]])

\* positions of the columns of top-level group `key`, in column order
GroupIdx(t, key) ==
    SelectSeq([i \in 1..Len(t.cols) |-> i], LAMBDA i : t.cols[i][1] = key)

\* dataset[key] on two-level columns: the sub-table of the group, the first
\* level dropped; KeyError when no column has that first level
GetGroup(t, key) ==
    LET idx == GroupIdx(t, key)
    IN IF idx = << >> THEN KeyError
       ELSE Ok([cols  |-> [k \in 1..Len(idx) |-> t.cols[idx[k]][2]],
             index |-> t.index,
             rows  |-> [r \in 1..NRows(t) |-> [k \in 1..Len(idx) |-> t.rows[r][idx[k]]]]])

\* dataset[key] = value for an existing group: each column (key, channel) of
\* the table takes the column `channel` of value
SetGroup(t, key, value) ==
    [t EXCEPT !.rows =
        [r \in 1..NRows(t) |->
            [c \in 1..Len(t.cols) |->
                IF t.cols[c][1] = key
                THEN value.rows[r][ColIdx(value, t.cols[c][2])]
                ELSE t.rows[r][c]]]]

---------------------------------------------------------------------------
(* Sensor names                                                            *)

Sync == <<"sync">>
Sides == <<"l", "r">>
Positions == <<"cavity", "heel", "lateral", "medial", "instep", "insole">>

\* the sensor name {side}_{position}
SensorName(side, pos) == <<side, "_", pos>>

LCavity == SensorName("l", "cavity")
LMedial == SensorName("l", "medial")
RHeel == SensorName("r", "heel")
RMedial == SensorName("r", "medial")

---------------------------------------------------------------------------
(* scipy Rotation.apply: every row vector v becomes R.v                    *)

MatVec(R, v) == [i \in 1..3 |-> R[i][1] * v[1] + R[i][2] * v[2] + R[i][3] * v[3]]

RotationApply(R, arr) == [r \in 1..Len(arr) |-> MatVec(R, arr[r])]

---------------------------------------------------------------------------
(* internal_helpers.py: _rotate_sensor and rotate_dataset                  *)

\* data[labels] raises KeyError unless every label is a column
HasColumns(t, labels) == Range(labels) \subseteq Range(t.cols)

\* _rotate_sensor applying the inverse rotation (the transposed matrix)
rotate_sensor_inverse(data, rot) ==
    IF rot = None THEN Ok(data)
    ELSE IF ~HasColumns(data, SFGYR) \/ ~HasColumns(data, SFACC) THEN KeyError
    ELSE LET inv == [i \in 1..3 |-> [j \in 1..3 |-> rot[j][i]]]
             gyr == SetColumns(data, SFGYR, RotationApply(inv, ToNumpy(data, SFGYR)))
         IN Ok(SetColumns(gyr, SFACC, RotationApply(inv, ToNumpy(gyr, SFACC))))

\* _rotate_sensor(data, rotation, inplace=False)
_rotate_sensor(data, rot) ==
    IF rot = None THEN Ok(data)
    ELSE IF ~HasColumns(data, SFGYR) THEN KeyError
    ELSE LET gyr == SetColumns(data, SFGYR, RotationApply(rot, ToNumpy(data, SFGYR)))
         IN IF ~HasColumns(gyr, SFACC) THEN KeyError
            ELSE Ok(SetColumns(gyr, SFACC, RotationApply(rot, ToNumpy(gyr, SFACC))))

\* rotation_dict of rotate_dataset, as the sequence of its items <<key, rotation>>
\* in iteration order
RotationDict(ds, rot) ==
    IF rot.isdict THEN rot.items
    ELSE LET names == SensorNames(ds)
         IN [k \in 1..Len(names) |-> <<names[k], rot.single>>]

\* the loop of rotate_dataset over the items not yet visited
RECURSIVE RotateLoop(_, _, _)
RotateLoop(ds, rotated, items) ==
    IF items = << >> THEN Ok(rotated)
    ELSE LET key == Head(items)[1]
         IN Then(GetGroup(ds, key), LAMBDA group :
            Then(IF IsOk(group) THEN _rotate_sensor(group.value, Head(items)[2])
                 ELSE group, LAMBDA test :
            IF ~IsOk(test) THEN test
            ELSE Then(SetGroup(rotated, key, test.value), LAMBDA next :
                      RotateLoop(ds, next, Tail(items)))))

\* rotate_dataset returning the groups of the mapping only, in mapping order
rotate_dataset_mapped_only(ds, rot) ==
    LET items == RotationDict(ds, rot)
        res == RotateLoop(ds, ds, items)
        kept == Flatten([i \in 1..Len(items) |->
                    SelectSeq(ds.cols, LAMBDA label : label[1] = items[i][1])])
    IN IF IsOk(res) THEN Ok(Reindex(res.value, kept)) ELSE res

\* rotate_dataset(dataset, rotation)
rotate_dataset(ds, rot) ==
    LET original_cols == ds.cols
    IN Then(RotateLoop(ds, ds, RotationDict(ds, rot)), LAMBDA res :
       IF IsOk(res) THEN Ok(Reindex(res.value, original_cols)) ELSE res)

---------------------------------------------------------------------------
(* helper.py: align_coordinates                                            *)

\* s.split("_") of a sensor name: the strings between the underscores
RECURSIVE SplitFrom(_, _)
SplitFrom(name, parts) ==
    IF name = << >> THEN parts
    ELSE SplitFrom(Tail(name),
                   IF Head(name) = "_" THEN Append(parts, "")
                   ELSE [parts EXCEPT ![Len(parts)] = @ \o Head(name)])

Split(name) == SplitFrom(name, <<"">>)

\* the sides exchanged
feet_exchanged == [r |-> "left", l |-> "right"]

\* feet = {"r": "right", "l": "left"}
feet == [r |-> "right", l |-> "left"]

\* one pass of the loop of align_coordinates, for the sensor name s: the name
\* is skipped (None), gets the rotation of its position and side, or raises
SensorRotation(s) ==
    LET parts == Split(s)
        foot == parts[1]
        pos == parts[2]
        key == "qualisis_" \o pos \o "_nilspodv1"
    IN IF "_" \notin Range(s) THEN Ok(None)
       ELSE IF Len(parts) # 2 THEN ValueError
       ELSE IF key \notin DOMAIN COORDINATE_TRANSFORMATION_DICT THEN Ok(None)
       ELSE IF foot \notin DOMAIN feet THEN KeyError
       ELSE Ok(COORDINATE_TRANSFORMATION_DICT[key][feet[foot] \o "_sensor"])

\* the loop of align_coordinates over the sensor names: the first pass that
\* raises ends the call, otherwise `rotations` holds, in the order of the
\* names, an item <<name, rotation>> for every name not skipped
AlignRotations(names) ==
    LET passes == [i \in 1..Len(names) |-> <<names[i], SensorRotation(names[i])>>] \o << >>
        raised == SelectSeq(passes, LAMBDA p : ~IsOk(p[2]))
        kept == SelectSeq(passes, LAMBDA p : IsOk(p[2]) /\ p[2].value # None)
    IN IF raised # << >> THEN Head(raised)[2]
       ELSE Ok([i \in 1..Len(kept) |-> <<kept[i][1], kept[i][2].value>>])

\* multi_sensor_data.drop(columns="sync")
DropGroup(t, key) ==
    IF GroupIdx(t, key) = << >> THEN KeyError
    ELSE Ok(Reindex(t, SelectSeq(t.cols, LAMBDA label : label[1] # key)))

\* the rows of value taken by position from the end instead of by row label
InsertGroupReversed(t, key, value) ==
    IF Len(value.cols) # 1 THEN ValueError
    ELSE Ok([t EXCEPT !.cols = Append(t.cols, <<key, "">>),
                      !.rows = [r \in 1..NRows(t) |->
                                  Append(t.rows[r], value.rows[NRows(t) + 1 - r][1])]])

\* ds[key] = value for a group ds does not have, value a table: a single column
\* is appended under the label (key, ""); several columns do not fit one key
InsertGroup(t, key, value) ==
    IF Len(value.cols) # 1 THEN ValueError
    ELSE Ok([t EXCEPT !.cols = Append(t.cols, <<key, "">>),
                      !.rows = [r \in 1..NRows(t) |-> Append(t.rows[r], value.rows[r][1])]])

\* align_coordinates(multi_sensor_data)
align_coordinates(data) ==
    Then(AlignRotations(SensorNames(data)), LAMBDA rotations :
    Then(DropGroup(data, <<"sync">>), LAMBDA dropped :
    Then(IF IsOk(rotations) /\ IsOk(dropped)
         THEN Then(dropped.value, LAMBDA without_sync :
                   rotate_dataset(without_sync, [isdict |-> TRUE, items |-> rotations.value]))
         ELSE IF IsOk(rotations) THEN dropped ELSE rotations, LAMBDA ds :
    IF IsOk(ds) THEN InsertGroup(ds.value, <<"sync">>, GetGroup(data, <<"sync">>).value) ELSE ds)))

---------------------------------------------------------------------------
(* helper.py: get_session_df, from the calibrated and synchronised table   *)
(* of the session on.  Its columns are labelled <<id, channel>>, id being  *)
(* the one-token name of the sensor's hardware id.                         *)

\* str.lower() on the hardware ids
ToLower(str) ==
    CASE str = "9E82" -> "9e82"
      [] str = "A1F3" -> "a1f3"
      [] str = "C0B4" -> "c0b4"
      [] str = "323C" -> "323c"
      [] OTHER -> str

\* the map keyed by the ids as the metadata writes them
SensorMapAsWritten(meta) ==
    [id \in {meta.sensors[n] : n \in DOMAIN meta.sensors} |->
        CHOOSE n \in DOMAIN meta.sensors : meta.sensors[n] = id]

\* sensor_map = {v.lower(): k for k, v in meta_data["sensors"].items()}
SensorMap(meta) ==
    [id \in {<<ToLower(meta.sensors[n][1])>> : n \in DOMAIN meta.sensors} |->
        CHOOSE n \in DOMAIN meta.sensors : <<ToLower(meta.sensors[n][1])>> = id]

\* the order of the column labels under df.sort_index(axis=1): by sensor name,
\* then by channel, each alphabetically
SortedSensors ==
    LET alphabetical == <<"cavity", "heel", "insole", "instep", "lateral", "medial">>
    IN [i \in 1..6 |-> SensorName("l", alphabetical[i])]
       \o [i \in 1..6 |-> SensorName("r", alphabetical[i])] \o <<Sync>>

SortedChannels ==
    <<"acc_x", "acc_y", "acc_z", "analog_0", "analog_1", "analog_2",
      "gyr_x", "gyr_y", "gyr_z">>

Rank(x, order) == CHOOSE i \in 1..Len(order) : order[i] = x

LabelBefore(a, b) ==
    \/ Rank(a[1], SortedSensors) < Rank(b[1], SortedSensors)
    \/ /\ a[1] = b[1]
       /\ Rank(a[2], SortedChannels) < Rank(b[2], SortedChannels)

\* df.sort_index(axis=1)
SortIndex(t) == Reindex(t, SortSeq(t.cols, LabelBefore))

\* rotation_from_angle(angle, axis) for an angle of whole quarter turns, given
\* in degrees, about a coordinate axis: the matrix of Rodrigues' formula
rotation_from_angle(angle, axis) ==
    LET cos == CASE angle = 0 -> 1 [] angle = 90 -> 0 [] angle = 180 -> -1 [] angle = 270 -> 0
        sin == CASE angle = 0 -> 0 [] angle = 90 -> 1 [] angle = 180 -> 0 [] angle = 270 -> -1
        cross == << <<0, -axis[3], axis[2]>>,
                    <<axis[3], 0, -axis[1]>>,
                    <<-axis[2], axis[1], 0>> >>
    IN [i \in 1..3 |-> [j \in 1..3 |->
          (IF i = j THEN cos ELSE 0) + (1 - cos) * axis[i] * axis[j] + sin * cross[i][j]]]

\* the list of the l_cavity fixup with a subject of the other list in it
CavityFixSubjectsWithMedial == {"8d60", "cb3d", "4d91"}

\* the subjects whose l_cavity and whose l_medial sensor was wrongly attached
CavityFixSubjects == {"8d60", "cb3d", "cdfc"}
MedialFixSubjects == {"4d91", "5237", "80b8", "c9bb"}

\* df[("sync", "trigger")] = trigger
AppendColumn(t, label, values) ==
    [t EXCEPT !.cols = Append(t.cols, label),
              !.rows = [r \in 1..NRows(t) |-> Append(t.rows[r], values[r])]]

\* the part of get_session_df after the renaming of the columns, the two
\* fixups exchanged
SessionFixupsExchanged(subject_id, df) ==
    LET half_turn == rotation_from_angle(180, <<0, 0, 1>>)
        Fix(sensor) == [isdict |-> TRUE, items |-> << <<sensor, half_turn>> >>]
    IN IF <<Sync, "analog_2">> \notin Range(df.cols) THEN KeyError
       ELSE
       Then(ToNumpy(df, << <<Sync, "analog_2">> >>), LAMBDA trigger :
       Then(DropGroup(SortIndex(df), Sync), LAMBDA dropped :
       Then(IF subject_id \in CavityFixSubjects
            THEN rotate_dataset(dropped.value, Fix(LMedial)) ELSE dropped, LAMBDA cavity :
       Then(IF IsOk(cavity) /\ subject_id \in MedialFixSubjects
            THEN rotate_dataset(cavity.value, Fix(LCavity)) ELSE cavity, LAMBDA medial :
       IF IsOk(medial)
       THEN Ok(AppendColumn(medial.value, <<Sync, "trigger">>,
                            [r \in 1..NRows(df) |-> trigger[r][1]]))
       ELSE medial))))

\* the part of get_session_df after the renaming of the columns: the trigger
\* is set aside, the columns are sorted, the sync group is dropped, the
\* wrongly attached sensors are turned and the trigger is put back
SessionFixups(subject_id, df) ==
    LET half_turn == rotation_from_angle(180, <<0, 0, 1>>)
        Fix(sensor) == [isdict |-> TRUE, items |-> << <<sensor, half_turn>> >>]
    IN IF <<Sync, "analog_2">> \notin Range(df.cols) THEN KeyError
       ELSE
       Then(ToNumpy(df, << <<Sync, "analog_2">> >>), LAMBDA trigger :
       Then(DropGroup(SortIndex(df), Sync), LAMBDA dropped :
       Then(IF subject_id \in CavityFixSubjects
            THEN rotate_dataset(dropped.value, Fix(LCavity)) ELSE dropped, LAMBDA cavity :
       Then(IF IsOk(cavity) /\ subject_id \in MedialFixSubjects
            THEN rotate_dataset(cavity.value, Fix(LMedial)) ELSE cavity, LAMBDA medial :
       IF IsOk(medial)
       THEN Ok(AppendColumn(medial.value, <<Sync, "trigger">>,
                            [r \in 1..NRows(df) |-> trigger[r][1]]))
       ELSE medial))))

\* get_session_df(subject_id), the metadata of the subject being meta and the
\* calibrated table of its session raw
get_session_df(subject_id, meta, raw) ==
    LET sensor_map == SensorMap(meta)
    IN IF \E i \in 1..Len(raw.cols) : raw.cols[i][1] \notin DOMAIN sensor_map
       THEN KeyError
       ELSE Then([raw EXCEPT !.cols = [i \in 1..Len(raw.cols) |->
                                        <<sensor_map[raw.cols[i][1]], raw.cols[i][2]>>]],
                 LAMBDA df : SessionFixups(subject_id, df))

---------------------------------------------------------------------------
(* helper.py: get_imu_test; gaitmap_dataset.py: SensorPositionDatasetMocap *)
(*                                                                         *)
(* Time is counted in ticks of 1/1024 s: at the sampling rate of 204.8 Hz  *)
(* (= 1024/5 Hz) one sample lasts 5 ticks, and k / 204.8 s is 5k ticks.    *)

\* sampling_rate_hz = 204.8 = TicksPerSecond / SamplePeriod
TicksPerSecond == 1024
SamplePeriod == 5

\* a slice that leaves the stop label out
LocSliceHalfOpen(t, start, stop) ==
    LET lo == Cardinality({i \in 1..NRows(t) : t.index[i] < start})
        hi == Cardinality({i \in 1..NRows(t) : t.index[i] < stop})
    IN [t EXCEPT !.index = SubSeq(t.index, lo + 1, hi),
                 !.rows = SubSeq(t.rows, lo + 1, hi)]

\* session_df.loc[start:stop] on a sorted index: the rows from the first label
\* >= start to the last label <= stop, both ends included
LocSlice(t, start, stop) ==
    LET lo == Cardinality({i \in 1..NRows(t) : t.index[i] < start})
        hi == Cardinality({i \in 1..NRows(t) : t.index[i] <= stop})
    IN [t EXCEPT !.index = SubSeq(t.index, lo + 1, hi),
                 !.rows = SubSeq(t.rows, lo + 1, hi)]

\* get_imu_test that pads the test at its start only
get_imu_test_padded_at_start(meta, test_name, session, padding_s) ==
    IF test_name \notin DOMAIN meta.imu_tests THEN KeyError
    ELSE LET test_start == meta.imu_tests[test_name].start - padding_s * TicksPerSecond
             test_stop == meta.imu_tests[test_name].stop
         IN Ok(LocSlice(session, test_start, test_stop))

\* get_imu_test(subject, test_name, session_df, padding_s), the metadata of
\* the subject being meta
get_imu_test(meta, test_name, session, padding_s) ==
    IF test_name \notin DOMAIN meta.imu_tests THEN KeyError
    ELSE LET test_start == meta.imu_tests[test_name].start - padding_s * TicksPerSecond
             test_stop == meta.imu_tests[test_name].stop + padding_s * TicksPerSecond
         IN Ok(LocSlice(session, test_start, test_stop))

---------------------------------------------------------------------------
(* gaitmap_dataset.py: the dataset facades.  A facade is a record          *)
(* [kind, data_padding_s, align_data, groupby, index]; groupby is None or  *)
(* the sequence of the grouping columns; index is the sequence of the      *)
(* selected rows, records [participant, test] (Mocap) or [participant]     *)
(* (Segmentation).  The files read are those of the participant of the     *)
(* first row.                                                              *)

\* gaitmap's Dataset: the groups of the selection, the rows themselves when
\* the facade is not grouped
Groups(f) ==
    IF f.groupby = None THEN Unique(f.index)
    ELSE Unique([i \in 1..Len(f.index) |-> [c \in Range(f.groupby) |-> f.index[i][c]]])

\* self.is_single() of gaitmap's Dataset: len(self) == 1, the length of a
\* dataset being the number of its groups
is_single(f) == Len(Groups(f)) = 1

\* df.reset_index(drop=True); df.index /= sampling_rate_hz: row k (from 0)
\* gets the label k / 204.8 s, in ticks
TimeIndex(df) == [df EXCEPT !.index = [k \in 1..NRows(df) |-> (k - 1) * SamplePeriod]]

\* df.reset_index(drop=True); df.index /= sampling_rate_hz; df.index -= padding:
\* row k (from 0) gets the label k / 204.8 s - padding s, in ticks
TimeAfterStart(df, padding_s) ==
    [df EXCEPT !.index = [k \in 1..NRows(df) |->
                            (k - 1) * SamplePeriod - padding_s * TicksPerSecond]]

\* SensorPositionDatasetMocap.data
MocapData(f, meta, raw) ==
    IF ~is_single(f) THEN ValueError
    ELSE
    Then(get_session_df(f.index[1].participant, meta, raw), LAMBDA session :
    Then(IF IsOk(session) /\ f.align_data
         THEN Then(session.value, align_coordinates) ELSE session, LAMBDA aligned_df :
    Then(IF IsOk(aligned_df)
         THEN get_imu_test(meta, f.index[1].test, aligned_df.value, f.data_padding_s)
         ELSE aligned_df, LAMBDA df :
    IF IsOk(df) THEN Ok(TimeAfterStart(df.value, f.data_padding_s)) ELSE df)))

\* SensorPositionDatasetSegmentation.data
SegmentationData(f, meta, raw) ==
    IF ~is_single(f) THEN ValueError
    ELSE
    Then(get_session_df(f.index[1].participant, meta, raw), LAMBDA session :
    IF IsOk(session) THEN Then(TimeIndex(session.value), align_coordinates) ELSE session)

---------------------------------------------------------------------------
(* helper.py: get_manual_labels_for_test; gaitmap_dataset.py: stride lists *)
(*                                                                         *)
(* The labels of a subject are the rows of manual_stride_border.csv, each  *)
(* a record [s_id, start, end, foot] in samples of the whole session.      *)

\* labels restricted to the half-open range of the test
get_manual_labels_for_test_half_open(meta, test_name, labels) ==
    IF test_name \notin DOMAIN meta.imu_tests THEN KeyError
    ELSE LET test_start == meta.imu_tests[test_name].start_idx
             test_stop == meta.imu_tests[test_name].stop_idx
             kept == SelectSeq(labels, LAMBDA l : /\ l.start >= test_start
                                                  /\ l.end < test_stop)
         IN Ok([k \in 1..Len(kept) |->
                    [kept[k] EXCEPT !.start = @ - test_start, !.end = @ - test_start]])

\* get_manual_labels_for_test(subject_id, test_name), the metadata of the
\* subject being meta and its labels `labels`
get_manual_labels_for_test(meta, test_name, labels) ==
    IF test_name \notin DOMAIN meta.imu_tests THEN KeyError
    ELSE LET test_start == meta.imu_tests[test_name].start_idx
             test_stop == meta.imu_tests[test_name].stop_idx
             kept == SelectSeq(labels, LAMBDA l : /\ l.start >= test_start
                                                  /\ l.end <= test_stop)
         IN Ok([k \in 1..Len(kept) |->
                    [kept[k] EXCEPT !.start = @ - test_start, !.end = @ - test_start]])

\* int(num / den): the quotient, rounded towards zero
IntTrunc(num, den) == IF num >= 0 THEN num \div den ELSE -((-num) \div den)

\* stride_list.set_index("s_id"); stride_list[["start", "end"]] += shift
ShiftedStrideList(labels, shift) ==
    [index |-> [k \in 1..Len(labels) |-> labels[k].s_id],
     rows  |-> [k \in 1..Len(labels) |->
                  [start |-> labels[k].start + shift,
                   end |-> labels[k].end + shift,
                   foot |-> labels[k].foot]]]

\* the stride list shifted by the padding rounded up to whole samples
get_segmented_stride_list_rounded_up(f, index, meta, labels) ==
    LET for_test == get_manual_labels_for_test(meta, index[1].test, labels)
        shift == (f.data_padding_s * TicksPerSecond + SamplePeriod - 1) \div SamplePeriod
    IN IF IsOk(for_test) THEN Ok(ShiftedStrideList(for_test.value, shift)) ELSE for_test

\* SensorPositionDatasetMocap._get_segmented_stride_list(index):
\* int(self.data_padding_s * self.sampling_rate_hz) is added to the bounds
_get_segmented_stride_list(f, index, meta, labels) ==
    LET for_test == get_manual_labels_for_test(meta, index[1].test, labels)
        shift == IntTrunc(f.data_padding_s * TicksPerSecond, SamplePeriod)
    IN IF IsOk(for_test) THEN Ok(ShiftedStrideList(for_test.value, shift)) ELSE for_test

\* _SensorPostionDataset.segmented_stride_list_ of either facade;
\* SensorPositionDatasetSegmentation._get_segmented_stride_list returns the
\* labels of the whole session under their s_id
segmented_stride_list_(f, meta, labels) ==
    IF ~is_single(f) THEN ValueError
    ELSE IF f.kind = "Mocap" THEN _get_segmented_stride_list(f, f.index, meta, labels)
    ELSE Ok(ShiftedStrideList(labels, 0))

\* get_foot_sensor(foot): the six sensors of the foot, named by foot[0]
get_foot_sensor(foot) ==
    LET initial == IF foot = "left" THEN "l" ELSE "r"
        sensors == <<"cavity", "heel", "lateral", "medial", "instep", "insole">>
    IN [i \in 1..Len(sensors) |-> SensorName(initial, sensors[i])]

\* stride_list[stride_list["foot"] == foot][["start", "end"]]
FootStrideList(sl, foot) ==
    LET pos == SelectSeq([k \in 1..Len(sl.rows) |-> k], LAMBDA k : sl.rows[k].foot = foot)
    IN [index |-> [k \in 1..Len(pos) |-> sl.index[pos[k]]],
        rows  |-> [k \in 1..Len(pos) |-> [start |-> sl.rows[pos[k]].start,
                                          end |-> sl.rows[pos[k]].end]]]

\* _SensorPostionDataset.segmented_stride_list_per_sensor_: the stride list
\* of its foot under the name of every sensor
segmented_stride_list_per_sensor_(f, meta, labels) ==
    LET sl == segmented_stride_list_(f, meta, labels)
    IN IF ~IsOk(sl) THEN sl
       ELSE Ok([sensor \in Range(get_foot_sensor("left")) \cup Range(get_foot_sensor("right")) |->
                  FootStrideList(sl.value, IF sensor[1] = "l" THEN "left" ELSE "right")])

\* SensorPositionDatasetMocap.mocap_events_: the module does not import the
\* get_mocap_events it calls
mocap_events_(f) ==
    IF ~is_single(f) THEN ValueError ELSE Raise("NameError")

\* SensorPositionDatasetMocap.marker_position_, mocap being what
\* get_mocap_test gives for the test: the rows are labelled k / 100 s, in
\* hundredths of a second
marker_position_(f, mocap) ==
    IF ~is_single(f) THEN ValueError
    ELSE IF IsOk(mocap)
    THEN Ok([mocap.value EXCEPT !.index = [k \in 1..NRows(mocap.value) |-> k - 1]])
    ELSE mocap

---------------------------------------------------------------------------
(* Input tables                                                            *)

MaxRows == 2

\* the twelve foot sensors of a recording
FootSensors ==
    Flatten([p \in 1..Len(Positions) |->
                [k \in 1..Len(Sides) |-> SensorName(Sides[k], Positions[p])]])

\* group names that are no foot sensor: no underscore, a position or a side
\* that is not known, two underscores
OddSensors ==
    << <<"imu">>, <<"l", "_", "shank">>, <<"x", "_", "heel">>,
       <<"l", "_", "heel", "_", "2">> >>

GroupOrder == FootSensors \o OddSensors \o <<Sync>>

\* channel orders of a sensor group: the sensor frame order, and a scrambled
\* order with one more, non-motion channel
ChannelOrders ==
    { SFCOLS,
      <<"gyr_z", "acc_y", "baro", "gyr_x", "acc_x", "acc_z", "gyr_y">> }

AllChannels ==
    <<"acc_x", "acc_y", "acc_z", "gyr_x", "gyr_y", "gyr_z", "baro", "trigger", "analog_2">>

\* the cell of row template k in column <<sensor, channel>>: distinct columns
\* and distinct templates give distinct, non-zero values
CellValue(k, label) ==
    1000 * k
    + 10 * (CHOOSE g \in 1..Len(GroupOrder) : GroupOrder[g] = label[1])
    + (CHOOSE c \in 1..Len(AllChannels) : AllChannels[c] = label[2])

\* the column labels of one group
GroupCols(sensor, channels, sync_channels) ==
    IF sensor = Sync THEN [c \in 1..Len(sync_channels) |-> <<Sync, sync_channels[c]>>]
    ELSE [c \in 1..Len(channels) |-> <<sensor, channels[c]>>]

\* round-robin interleaving of the groups' columns
RECURSIVE Interleave(_)
Interleave(ss) ==
    LET live == SelectSeq(ss, LAMBDA g : g # << >>)
    IN IF live = << >> THEN << >>
       ELSE [k \in 1..Len(live) |-> Head(live[k])]
            \o Interleave([k \in 1..Len(live) |-> Tail(live[k])])

\* ascending and descending order of a set of groups
GroupSeqs(S) ==
    LET asc == SelectSeq(GroupOrder, LAMBDA g : g \in S)
    IN {asc, [k \in 1..Len(asc) |-> asc[Len(asc) + 1 - k]]}

\* the column layouts of a set S of groups
LayoutsOf(S, sync_channels) ==
    UNION { { Flatten([g \in 1..Len(order) |-> GroupCols(order[g], SFCOLS, sync_channels)]),
              Interleave([g \in 1..Len(order) |-> GroupCols(order[g], SFCOLS, sync_channels)]) }
            \cup { Flatten([g \in 1..Len(order) |-> GroupCols(order[g], ch, sync_channels)])
                    : ch \in ChannelOrders }
            : order \in GroupSeqs(S) }

RowTemplates == 1..2

MakeTable(cols, templates) ==
    [cols  |-> cols,
     index |-> [r \in 1..Len(templates) |-> r],
     rows  |-> [r \in 1..Len(templates) |->
                  [c \in 1..Len(cols) |-> CellValue(templates[r], cols[c])]]]

RowChoices == UNION {[1..n -> RowTemplates] : n \in 0..MaxRows}

\* the tables over the sets of groups in `groupsets`
Tables(groupsets, sync_channels) ==
    { MakeTable(cols, templates) :
        cols \in UNION {LayoutsOf(S, sync_channels) : S \in groupsets},
        templates \in RowChoices }

---------------------------------------------------------------------------
(* The rotation applicator called in both forms on one input table         *)

Pending == Raise("pending")

\* the rotations of the calls: rows of the rotation table
RotLateral == COORDINATE_TRANSFORMATION_DICT.qualisis_lateral_nilspodv1.left_sensor
RotHeel == COORDINATE_TRANSFORMATION_DICT.qualisis_heel_nilspodv1.left_sensor
RotInsole == COORDINATE_TRANSFORMATION_DICT.qualisis_insole_nilspodv1.right_sensor

\* what a mapping may hold for each key: absent ("-"), a rotation, or None
MappingChoices(key) == IF key = RMedial THEN {"-", "rot"} ELSE {"-", "rot", "none"}

MappingRotation(key) ==
    IF key = LCavity THEN RotLateral
    ELSE IF key = RHeel THEN RotHeel
    ELSE RotInsole

MappingKeys == <<LCavity, RHeel, Sync, RMedial>>

Mappings ==
    { LET keys == SelectSeq(MappingKeys, LAMBDA k : pick[k] # "-")
      IN [i \in 1..Len(keys) |->
            <<keys[i], IF pick[keys[i]] = "rot" THEN MappingRotation(keys[i]) ELSE None>>]
      : pick \in { f \in [Range(MappingKeys) -> {"-", "rot", "none"}] :
                      \A k \in Range(MappingKeys) : f[k] \in MappingChoices(k) } }

RotateInit ==
    /\ pc = "rotate"
    /\ dataset \in Tables(SUBSET {LCavity, RHeel, Sync}, <<"trigger">>)
    /\ rotation \in [single : {RotInsole, None}, items : Mappings]
    /\ rotated_single = Pending
    /\ rotated_dataset = Pending
    /\ AlignIdle /\ WorldIdle /\ WindowIdle /\ LabelIdle /\ FacadeIdle /\ FolderIdle

\* rotate_dataset(dataset, rotation) with a single Rotation
RotateSingle ==
    /\ pc = "rotate"
    /\ rotated_single' = rotate_dataset(dataset, [isdict |-> FALSE, single |-> rotation.single])
    /\ pc' = "rotate_mapping"
    /\ UNCHANGED <<dataset, rotation, rotated_dataset, notRotVars>>

\* rotate_dataset(dataset, rotation) with a dict of rotations
RotateMapping ==
    /\ pc = "rotate_mapping"
    /\ rotated_dataset' = rotate_dataset(dataset, [isdict |-> TRUE, items |-> rotation.items])
    /\ pc' = "rotate_done"
    /\ UNCHANGED <<dataset, rotation, rotated_single, notRotVars>>

RotateNext == RotateSingle \/ RotateMapping

SpecRotate == RotateInit /\ [][RotateNext]_vars

---------------------------------------------------------------------------
(* Claims on the rotation applicator                                       *)

\* the 3-vector of the named channels of one sensor in row r
SensorVector(t, r, sensor, channels) ==
    [k \in 1..3 |-> t.rows[r][ColIdx(t, <<sensor, channels[k]>>)]]

\* w = R.v, written out
IsRotated(R, v, w) ==
    \A i \in 1..3 : w[i] = R[i][1] * v[1] + R[i][2] * v[2] + R[i][3] * v[3]

MappedSensors == {rotation.items[i][1] : i \in 1..Len(rotation.items)}

\* C1: rotate_dataset called with a mapping returns a table in which, for
\* every sensor of the mapping and every row, the acc vector and the gyr vector
\* are R times the input's vectors (the input's vectors for a sensor mapped to
\* None), and every group absent from the mapping and every column that is not
\* one of the six acc/gyr channels holds the input's values.
C1_MappingRotatesListedSensors ==
    (pc = "rotate_done" /\ IsOk(rotated_dataset)) =>
        LET out == rotated_dataset.value
        IN /\ out.cols = dataset.cols
           /\ NRows(out) = NRows(dataset)
           /\ \A r \in 1..NRows(dataset) :
                /\ \A i \in 1..Len(rotation.items) :
                     LET key == rotation.items[i][1]
                         R == rotation.items[i][2]
                     IN R # None =>
                          /\ IsRotated(R, SensorVector(dataset, r, key, SFACC),
                                          SensorVector(out, r, key, SFACC))
                          /\ IsRotated(R, SensorVector(dataset, r, key, SFGYR),
                                          SensorVector(out, r, key, SFGYR))
                /\ \A c \in 1..Len(dataset.cols) :
                     \/ /\ dataset.cols[c][1] \in MappedSensors
                        /\ dataset.cols[c][2] \in Range(SFCOLS)
                        /\ \E i \in 1..Len(rotation.items) :
                              /\ rotation.items[i][1] = dataset.cols[c][1]
                              /\ rotation.items[i][2] # None
                     \/ out.rows[r][c] = dataset.rows[r][c]

\* a mapping that rotates l_cavity and leaves out r_heel, on a table with both
\* groups, a sync group, a non-motion channel and at least two rows
C1_Witness ==
    /\ pc = "rotate_done"
    /\ IsOk(rotated_dataset)
    /\ \E i \in 1..Len(rotation.items) :
          rotation.items[i][1] = LCavity /\ rotation.items[i][2] # None
    /\ RHeel \notin MappedSensors
    /\ {<<LCavity, "baro">>, <<RHeel, "acc_x">>, <<Sync, "trigger">>} \subseteq Range(dataset.cols)
    /\ NRows(dataset) >= 2
    /\ rotated_dataset.value.rows # dataset.rows

SameShape(out, in) ==
    /\ out.cols = in.cols
    /\ NRows(out) = NRows(in)
    /\ out.index = in.index
    /\ \A r \in 1..NRows(out) : Len(out.rows[r]) = Len(in.cols)

---------------------------------------------------------------------------
(* Coordinate alignment of one input table                                 *)

MaxSensors == 2

\* the groups of the input besides sync: the twelve foot sensors together, or
\* up to MaxSensors of the odd names and of four foot sensors, two of them
\* of one position on either foot
AlignGroupSets ==
    {Range(FootSensors), Range(FootSensors) \cup {OddSensors[1], OddSensors[2]}}
    \cup {S \in SUBSET ({LCavity, LMedial, RHeel, RMedial} \cup Range(OddSensors)) :
            Cardinality(S) <= MaxSensors}

\* the channels of the sync group of the input: none, one, two
SyncChannels == { << >>, <<"trigger">>, <<"trigger", "analog_2">> }

AlignInit ==
    /\ pc = "align"
    /\ \E sync_channels \in SyncChannels :
          multi_sensor_data \in
            Tables({S \cup (IF sync_channels = << >> THEN {} ELSE {Sync}) : S \in AlignGroupSets},
                   sync_channels)
    /\ aligned = Pending
    /\ RotIdle /\ WorldIdle /\ WindowIdle /\ LabelIdle /\ FacadeIdle /\ FolderIdle

\* align_coordinates(multi_sensor_data)
Align ==
    /\ pc = "align"
    /\ aligned' = align_coordinates(multi_sensor_data)
    /\ pc' = "align_done"
    /\ UNCHANGED <<multi_sensor_data, notAlignVars>>

AlignNext == Align

SpecAlign == AlignInit /\ [][AlignNext]_vars

---------------------------------------------------------------------------
(* Claims on the coordinate alignment                                      *)

\* the cells of the columns of one group, column by column in column order
GroupValues(t, key) ==
    LET idx == GroupIdx(t, key)
    IN [r \in 1..NRows(t) |-> [k \in 1..Len(idx) |-> t.rows[r][idx[k]]]]

TableMatrix(side, pos) ==
    LET entry == COORDINATE_TRANSFORMATION_DICT["qualisis_" \o pos \o "_nilspodv1"]
    IN IF side = "l" THEN entry.left_sensor ELSE entry.right_sensor

\* C4: align_coordinates rotates every sensor {side}_{position} by the table
\* entry qualisis_{position}_nilspodv1, the left_sensor matrix for side "l" and
\* the right_sensor matrix for side "r"; a sensor whose name has no underscore
\* or whose position has no table entry keeps its acc/gyr values, and every
\* column that is no acc/gyr channel keeps its values.
C4_AlignUsesTable ==
    (pc = "align_done" /\ IsOk(aligned)) =>
        LET in == multi_sensor_data
            out == aligned.value
        IN \A r \in 1..NRows(in) : \A c \in 1..Len(in.cols) :
             LET s == in.cols[c][1]
                 channel == in.cols[c][2]
             IN \/ s = Sync
                \/ /\ s \in Range(FootSensors)
                   /\ channel \in Range(SFCOLS)
                   /\ IsRotated(TableMatrix(s[1], s[3]),
                                SensorVector(in, r, s, SFACC), SensorVector(out, r, s, SFACC))
                   /\ IsRotated(TableMatrix(s[1], s[3]),
                                SensorVector(in, r, s, SFGYR), SensorVector(out, r, s, SFGYR))
                \/ /\ \/ "_" \notin Range(s)
                      \/ s \notin Range(FootSensors)
                      \/ channel \notin Range(SFCOLS)
                   /\ out.rows[r][ColIdx(out, in.cols[c])] = in.rows[r][c]

\* all twelve foot sensors, a group without underscore and a group whose
\* position has no entry, aligned together
C4_Witness ==
    /\ pc = "align_done"
    /\ IsOk(aligned)
    /\ Range(FootSensors) \cup {OddSensors[1], OddSensors[2]}
          \subseteq Range(SensorNames(multi_sensor_data))
    /\ NRows(multi_sensor_data) >= 2
    /\ <<LCavity, "baro">> \in Range(multi_sensor_data.cols)
    /\ GroupValues(aligned.value, OddSensors[1]) = GroupValues(multi_sensor_data, OddSensors[1])
    /\ GroupValues(aligned.value, RMedial) # GroupValues(multi_sensor_data, RMedial)

---------------------------------------------------------------------------
(* Claims on the rotation table, as align_coordinates applies it           *)

Identity3 == << <<1, 0, 0>>, <<0, 1, 0>>, <<0, 0, 1>> >>

Transpose(R) == [i \in 1..3 |-> [j \in 1..3 |-> R[j][i]]]

MatMul(A, B) ==
    [i \in 1..3 |-> [j \in 1..3 |-> A[i][1] * B[1][j] + A[i][2] * B[2][j] + A[i][3] * B[3][j]]]

\* the sensors of the input that the table has no entry for
AbsentFromTable ==
    {s \in Range(SensorNames(multi_sensor_data)) :
        s # Sync /\ SensorRotation(s) = Ok(None)}

\* the sensors of the input that the table has an entry for
InTable ==
    {s \in Range(SensorNames(multi_sensor_data)) :
        IsOk(SensorRotation(s)) /\ SensorRotation(s) # Ok(None)}

\* C13: the matrix of every (position, side) pair of the rotation table is
\* orthonormal (R^T * R = I) and is not the identity, so that aligning a sensor
\* of the table twice gives other values than aligning it once; a sensor the
\* table has no entry for keeps exactly the values of the input.
C13_TableOrthonormalNotIdentity ==
    /\ \A k \in 1..Len(Sides) : \A p \in 1..Len(Positions) :
          LET R == SensorRotation(SensorName(Sides[k], Positions[p])).value
          IN /\ MatMul(Transpose(R), R) = Identity3
             /\ R # Identity3
             /\ MatMul(R, R) # R
    /\ (pc = "align_done" /\ IsOk(aligned)) =>
          LET once == aligned.value
          IN Then(align_coordinates(once), LAMBDA twice :
             /\ IsOk(twice)
             /\ \A s \in AbsentFromTable :
                   GroupValues(once, s) = GroupValues(multi_sensor_data, s)
             /\ \A s \in InTable : \A r \in 1..NRows(once) :
                   /\ SensorVector(twice.value, r, s, SFACC) # SensorVector(once, r, s, SFACC)
                   /\ SensorVector(twice.value, r, s, SFGYR) # SensorVector(once, r, s, SFGYR))

\* the twelve sensors of the table aligned together with two sensors it has
\* no entry for, which keep their values while the left insole sensor does not
C13_Witness ==
    /\ pc = "align_done"
    /\ IsOk(aligned)
    /\ NRows(multi_sensor_data) >= 1
    /\ Cardinality(InTable) = 12
    /\ Cardinality(AbsentFromTable) = 2
    /\ \A s \in AbsentFromTable :
          GroupValues(aligned.value, s) = GroupValues(multi_sensor_data, s)
    /\ LET insole == SensorName("l", "insole")
       IN SensorVector(aligned.value, 1, insole, SFACC)
              # SensorVector(multi_sensor_data, 1, insole, SFACC)

---------------------------------------------------------------------------
(* Session assembly: get_session_df and the data of the Mocap facade       *)

\* the hardware ids of the sensors, as lower and as upper case strings
HardwareIds == <<LCavity, LMedial, RMedial, Sync>>

HardwareId(name, upper) ==
    CASE name = LCavity -> IF upper THEN <<"9E82">> ELSE <<"9e82">>
      [] name = LMedial -> IF upper THEN <<"A1F3">> ELSE <<"a1f3">>
      [] name = RMedial -> IF upper THEN <<"C0B4">> ELSE <<"c0b4">>
      [] name = Sync -> IF upper THEN <<"323C">> ELSE <<"323c">>

\* the channels of the sync sensor and of a foot sensor, in file order
RawSyncChannels == <<"analog_2", "analog_0">>
RawChannels == SFGYR \o SFACC

\* the calibrated table of a session of n samples from tick 0 on, one every
\* SamplePeriod ticks, of the sync sensor and the sensors `names`; every cell
\* has a value of its own
RawSession(names, n, upper) ==
    LET cols == [c \in 1..Len(RawSyncChannels) |-> <<HardwareId(Sync, upper), RawSyncChannels[c]>>]
                \o Flatten([k \in 1..Len(names) |->
                        [c \in 1..Len(RawChannels) |-> <<HardwareId(names[k], upper), RawChannels[c]>>]])
    IN [cols  |-> cols,
        index |-> [i \in 1..n |-> (i - 1) * SamplePeriod],
        rows  |-> [i \in 1..n |-> [c \in 1..Len(cols) |-> 100 * i + c]]]

\* meta_data.json: the hardware id of every sensor and the tests
SubjectMetaData(names, upper, imu_tests) ==
    [sensors |-> [name \in Range(names) \cup {Sync} |-> HardwareId(name, upper)],
     imu_tests |-> imu_tests]

\* the subjects of both lists and two subjects of neither
Subjects == CavityFixSubjects \cup MedialFixSubjects \cup {"6dbe", "e54d"}

\* the sensors of a session, in file order
SessionSensors == {<<LMedial, LCavity>>, <<RMedial, LMedial, LCavity>>, <<LCavity, RMedial>>}

\* one test that spans the n samples of the session
WholeSession(n) ==
    [fast_10 |-> [start |-> 0, stop |-> (n - 1) * SamplePeriod,
                  start_idx |-> 0, stop_idx |-> n - 1]]

\* a Mocap facade narrowed to one row
MocapFacade(participant, test, padding_s, align_data) ==
    [kind |-> "Mocap", data_padding_s |-> padding_s, align_data |-> align_data,
     groupby |-> None, index |-> <<[participant |-> participant, test |-> test]>>]

SessionInit ==
    /\ pc = "session"
    /\ \E names \in SessionSensors, n \in 1..MaxRows, upper_data, upper_meta \in BOOLEAN :
          /\ raw_df = RawSession(names, n, upper_data)
          /\ meta_data = SubjectMetaData(names, upper_meta, WholeSession(n))
    /\ manual_labels = Idle
    /\ mocap_test = Idle
    /\ facade \in {MocapFacade(participant, "fast_10", 0, align_data) :
                        participant \in Subjects, align_data \in BOOLEAN}
    /\ session_df = Pending
    /\ imu_test0 = Pending
    /\ imu_test = Pending
    /\ mocap_data = Pending
    /\ RotIdle /\ AlignIdle /\ LabelIdle /\ FacadeIdle /\ FolderIdle

\* get_session_df(participant)
GetSessionDf ==
    /\ pc \in {"session", "window_session"}
    /\ session_df' = get_session_df(facade.index[1].participant, meta_data, raw_df)
    /\ pc' = IF pc = "session" THEN "session_data" ELSE "window"
    /\ UNCHANGED <<imu_test0, imu_test, mocap_data, notWindowVars>>

\* SensorPositionDatasetMocap.data
Data ==
    /\ pc \in {"session_data", "window_data"}
    /\ mocap_data' = MocapData(facade, meta_data, raw_df)
    /\ pc' = IF pc = "session_data" THEN "session_done" ELSE "window_done"
    /\ UNCHANGED <<session_df, imu_test0, imu_test, notWindowVars>>

SessionNext == GetSessionDf \/ Data

SpecSession == SessionInit /\ [][SessionNext]_vars

---------------------------------------------------------------------------
(* Claims about the mounting fixups                                        *)

Participant == facade.index[1].participant

\* the vector of the channels of a sensor in row r of the calibrated table
RawVector(r, sensor, channels) ==
    [k \in 1..3 |-> raw_df.rows[r][ColIdx(raw_df, <<HardwareId(sensor, FALSE), channels[k]>>)]]

\* x and y negated, z kept
HalfTurnAboutZ(v) == <<-v[1], -v[2], v[3]>>

\* the sensor of the session that get_session_df has to turn, if any
IsFixed(sensor) ==
    \/ sensor = LCavity /\ Participant \in {"8d60", "cb3d", "cdfc"}
    \/ sensor = LMedial /\ Participant \in {"4d91", "5237", "80b8", "c9bb"}

\* C9: get_session_df turns l_cavity by 180 degrees about z exactly for the
\* subjects 8d60, cb3d, cdfc and l_medial exactly for 4d91, 5237, 80b8, c9bb:
\* acc_x, acc_y, gyr_x, gyr_y of that sensor are negated, acc_z and gyr_z
\* kept; every other sensor and every other subject keeps its values; and
\* the alignment of SensorPositionDatasetMocap.data acts on the table so
\* fixed: its vectors are the table rotation of the turned vectors.
C9_FixupByAllowList ==
    /\ {"8d60", "cb3d", "cdfc"} \cap {"4d91", "5237", "80b8", "c9bb"} = {}
    /\ (pc \in {"session_data", "session_done"} /\ IsOk(session_df)) =>
          \A sensor \in Range(SensorNames(session_df.value)) \ {Sync} :
            \A r \in 1..NRows(raw_df) : \A ch \in {SFACC, SFGYR} :
              SensorVector(session_df.value, r, sensor, ch) =
                  IF IsFixed(sensor) THEN HalfTurnAboutZ(RawVector(r, sensor, ch))
                  ELSE RawVector(r, sensor, ch)
    /\ (pc = "session_done" /\ IsOk(mocap_data) /\ facade.align_data) =>
          \A sensor \in Range(SensorNames(mocap_data.value)) \ {Sync} :
            \A r \in 1..NRows(raw_df) : \A ch \in {SFACC, SFGYR} :
              SensorVector(mocap_data.value, r, sensor, ch) =
                  MatVec(COORDINATE_TRANSFORMATION_DICT["qualisis_" \o sensor[3] \o "_nilspodv1"]
                            [IF sensor[1] = "l" THEN "left_sensor" ELSE "right_sensor"],
                         IF IsFixed(sensor) THEN HalfTurnAboutZ(RawVector(r, sensor, ch))
                         ELSE RawVector(r, sensor, ch))

\* the aligned data of subject 4d91, whose l_medial sensor was turned and
\* whose other sensors were not; turning after the alignment would differ
C9_Witness ==
    /\ pc = "session_done"
    /\ Participant = "4d91"
    /\ facade.align_data
    /\ IsOk(session_df) /\ IsOk(mocap_data)
    /\ NRows(mocap_data.value) > 0
    /\ SensorVector(session_df.value, 1, LMedial, SFACC)
         = HalfTurnAboutZ(RawVector(1, LMedial, SFACC))
    /\ SensorVector(session_df.value, 1, LCavity, SFACC) = RawVector(1, LCavity, SFACC)
    /\ SensorVector(mocap_data.value, 1, LMedial, SFACC)
         # HalfTurnAboutZ(MatVec(COORDINATE_TRANSFORMATION_DICT.qualisis_medial_nilspodv1.left_sensor,
                                 RawVector(1, LMedial, SFACC)))

---------------------------------------------------------------------------
(* Claims about the fixup of l_cavity followed by the alignment            *)

\* C16: for the subjects 8d60, cb3d and cdfc, get_session_df followed by
\* align_coordinates leaves the acc and gyr vectors of l_cavity equal to the
\* calibrated values: the half turn about z of the fixup and the cavity
\* matrix diag(-1, -1, 1) of the alignment compose to the identity.  For every
\* other subject the aligned l_cavity has x and y negated and z kept.
C16_CavityFixupUndoneByAlignment ==
    /\ MatMul(COORDINATE_TRANSFORMATION_DICT.qualisis_cavity_nilspodv1.left_sensor,
              rotation_from_angle(180, <<0, 0, 1>>)) = Identity3
    /\ (/\ pc = "session_done"
        /\ facade.align_data
        /\ IsOk(mocap_data)
        /\ LCavity \in Range(SensorNames(mocap_data.value))) =>
          \A r \in 1..NRows(raw_df) : \A ch \in {SFACC, SFGYR} :
              SensorVector(mocap_data.value, r, LCavity, ch) =
                  IF Participant \in {"8d60", "cb3d", "cdfc"}
                  THEN RawVector(r, LCavity, ch)
                  ELSE HalfTurnAboutZ(RawVector(r, LCavity, ch))

\* the aligned data of subject cdfc: l_cavity was turned by get_session_df
\* and holds the calibrated values again after the alignment
C16_Witness ==
    /\ pc = "session_done"
    /\ Participant = "cdfc"
    /\ facade.align_data
    /\ IsOk(session_df) /\ IsOk(mocap_data)
    /\ NRows(mocap_data.value) = NRows(raw_df)
    /\ NRows(raw_df) > 0
    /\ SensorVector(session_df.value, 1, LCavity, SFGYR)
          = HalfTurnAboutZ(RawVector(1, LCavity, SFGYR))
    /\ SensorVector(mocap_data.value, 1, LCavity, SFGYR) = RawVector(1, LCavity, SFGYR)
    /\ RawVector(1, LCavity, SFGYR) # HalfTurnAboutZ(RawVector(1, LCavity, SFGYR))

---------------------------------------------------------------------------
(* Claims about the renaming of the sensors                                *)

\* two hardware ids that differ at most in the case of their letters
SameIgnoringCase(a, b) == ToLower(a[1]) = ToLower(b[1])

\* the position the metadata gives for a hardware id, the case of the letters
\* set aside
PositionOf(id) ==
    CHOOSE n \in DOMAIN meta_data.sensors : SameIgnoringCase(meta_data.sensors[n], id)

\* the hardware ids of the columns of the session
SessionIds == {raw_df.cols[i][1] : i \in 1..Len(raw_df.cols)}

\* the session has the sensor that is turned for the participant
HasFixedSensor ==
    \A sensor \in {LCavity, LMedial} : IsFixed(sensor) => sensor \in DOMAIN meta_data.sensors

\* every column of the session is named after the position of its sensor
RenamedByPosition ==
    /\ IsOk(session_df)
    /\ Range(SensorNames(session_df.value)) = {PositionOf(id) : id \in SessionIds}
    /\ \A i \in 1..Len(raw_df.cols) :
          <<PositionOf(raw_df.cols[i][1]), raw_df.cols[i][2]>> \in Range(session_df.value.cols)
             \/ raw_df.cols[i][1] = HardwareId(Sync, TRUE)
             \/ raw_df.cols[i][1] = HardwareId(Sync, FALSE)

\* C14 as stated: get_session_df names every sensor after the position the
\* metadata gives for its hardware id, and an id that differs from the
\* metadata entry only in letter case, on either side of the comparison, is
\* mapped to the same position.
C14_CaseInsensitiveOnBothSides ==
    (pc \in {"session_data", "session_done"} /\ HasFixedSensor) => RenamedByPosition

\* C14: get_session_df lower-cases the ids of the metadata and looks the ids
\* of the session up as they are: when the ids of the session are in lower
\* case, every sensor is named after the position the metadata gives for its
\* id, in whatever case the metadata writes it; an id of the session with an
\* upper-case letter is not found, and the call raises KeyError.
C14_MetadataIdsLowered ==
    (pc \in {"session_data", "session_done"} /\ HasFixedSensor) =>
        IF \A id \in SessionIds : id[1] = ToLower(id[1])
        THEN RenamedByPosition
        ELSE session_df = KeyError

\* a session with lower-case ids renamed through metadata with upper-case ids
C14_Witness ==
    /\ pc = "session_data"
    /\ HasFixedSensor
    /\ \A n \in DOMAIN meta_data.sensors : meta_data.sensors[n][1] # ToLower(meta_data.sensors[n][1])
    /\ \A id \in SessionIds : id[1] = ToLower(id[1])
    /\ IsOk(session_df)
    /\ Range(SensorNames(session_df.value)) = {RMedial, LMedial, LCavity, Sync}
    /\ <<"a1f3">> \in SessionIds
    /\ PositionOf(<<"a1f3">>) = LMedial

---------------------------------------------------------------------------
(* One gait test cut out of a session, without and with padding            *)

MaxPadding == 1

\* samples in MaxPadding seconds, rounded up
PaddingSamples == (MaxPadding * TicksPerSecond + SamplePeriod - 1) \div SamplePeriod

\* the sample at which the late test starts: MaxPadding seconds are recorded
\* before it
LateStart == PaddingSamples + 2

TestLengths == {0, 1, 6}

\* an early and a late test; a boundary lies `off` ticks after its sample
ImuTests(len, off_start, off_stop) ==
    [t \in {"fast_10", "slow_20"} |->
        LET start_idx == IF t = "fast_10" THEN 3 ELSE LateStart
        IN [start |-> start_idx * SamplePeriod + off_start,
            stop |-> (start_idx + len) * SamplePeriod + off_stop,
            start_idx |-> start_idx,
            stop_idx |-> start_idx + len]]

\* session lengths: the recording ends within the late test's padding, or
\* MaxPadding seconds and more after the late test
SessionLengths == {LateStart + 9, LateStart + 6 + PaddingSamples + 3}

WindowInit ==
    /\ pc = "window_session"
    /\ raw_df \in {RawSession(<<LCavity>>, n, FALSE) : n \in SessionLengths}
    /\ meta_data \in {SubjectMetaData(<<LCavity>>, TRUE, ImuTests(len, a, b)) :
                        len \in TestLengths, a \in 0..(SamplePeriod - 1), b \in {0, 1}}
    /\ manual_labels = Idle
    /\ mocap_test = Idle
    /\ facade \in {MocapFacade("8d60", t, padding_s, align_data) :
                        t \in {"fast_10", "slow_20"}, padding_s \in 0..MaxPadding,
                        align_data \in BOOLEAN}
    /\ session_df = Pending
    /\ imu_test0 = Pending
    /\ imu_test = Pending
    /\ mocap_data = Pending
    /\ RotIdle /\ AlignIdle /\ LabelIdle /\ FacadeIdle /\ FolderIdle

\* get_imu_test(participant, test, session_df) with the default padding_s=0
GetImuTestUnpadded ==
    /\ pc = "window"
    /\ IsOk(session_df)
    /\ imu_test0' = get_imu_test(meta_data, facade.index[1].test, session_df.value, 0)
    /\ pc' = "window_padded"
    /\ UNCHANGED <<session_df, imu_test, mocap_data, notWindowVars>>

\* get_imu_test(participant, test, session_df, padding_s)
GetImuTest ==
    /\ pc = "window_padded"
    /\ imu_test' = get_imu_test(meta_data, facade.index[1].test, session_df.value,
                                 facade.data_padding_s)
    /\ pc' = "window_data"
    /\ UNCHANGED <<session_df, imu_test0, mocap_data, notWindowVars>>

WindowNext == GetSessionDf \/ GetImuTestUnpadded \/ GetImuTest \/ Data

SpecWindow == WindowInit /\ [][WindowNext]_vars

---------------------------------------------------------------------------
(* Claims about the test windower                                          *)

\* the selected test's metadata and the padding of the call
SelectedTest == meta_data.imu_tests[facade.index[1].test]

PaddingTicks == facade.data_padding_s * TicksPerSecond

\* the rows of t at the positions of `keep`, in the order of t
RowsAt(t, keep) ==
    LET pos == SelectSeq([i \in 1..NRows(t) |-> i], LAMBDA i : i \in keep)
    IN [t EXCEPT !.index = [k \in 1..Len(pos) |-> t.index[pos[k]]],
                 !.rows = [k \in 1..Len(pos) |-> t.rows[pos[k]]]]

\* `part` is a run of consecutive rows of `whole`
IsContiguousPart(part, whole) ==
    \E k \in 0..(NRows(whole) - NRows(part)) :
        /\ SubSeq(whole.index, k + 1, k + NRows(part)) = part.index
        /\ SubSeq(whole.rows, k + 1, k + NRows(part)) = part.rows

\* C5: get_imu_test with padding p returns exactly the session rows whose
\* timestamp lies in the closed interval [start - p s, stop + p s], in session
\* order; and for p >= 0 the rows returned with padding 0 are a run of
\* consecutive rows of the rows returned with padding p.
C5_PaddedWindowIsClosedInterval ==
    pc \in {"window_data", "window_done"} =>
        LET lo == SelectedTest.start - PaddingTicks
            hi == SelectedTest.stop + PaddingTicks
            session == session_df.value
            keep == {i \in 1..NRows(session) :
                        lo <= session.index[i] /\ session.index[i] <= hi}
        IN /\ IsOk(imu_test) /\ IsOk(imu_test0)
           /\ imu_test.value = RowsAt(session, keep)
           /\ facade.data_padding_s >= 0 =>
                  IsContiguousPart(imu_test0.value, imu_test.value)

\* a padded test with rows on both closed ends of the interval and more rows
\* than the unpadded test, which is not empty
C5_Witness ==
    /\ pc = "window_done"
    /\ facade.data_padding_s = 1
    /\ IsOk(imu_test) /\ IsOk(imu_test0)
    /\ NRows(imu_test0.value) > 0
    /\ NRows(imu_test.value) > NRows(imu_test0.value)
    /\ imu_test.value.index[1] = SelectedTest.start - PaddingTicks
    /\ imu_test.value.index[NRows(imu_test.value)] = SelectedTest.stop + PaddingTicks

Abs(x) == IF x < 0 THEN -x ELSE x

\* the sync trigger value of row k of t: every session row has its own
Trigger(t, k) == GroupValues(t, Sync)[k][1]

\* the position in t of the row that carries the sync trigger value v
RowOfTrigger(t, v) == CHOOSE k \in 1..NRows(t) : Trigger(t, k) = v

\* C6: in SensorPositionDatasetMocap.data the first row of the unpadded test
\* lies data_padding_s seconds (within one sample) after the first row of the
\* output, and so carries the time 0 (within one sample).
C6_ZeroAtUnpaddedStart ==
    (/\ pc = "window_done"
     /\ IsOk(mocap_data) /\ IsOk(imu_test0)
     /\ NRows(imu_test0.value) > 0) =>
        LET k == RowOfTrigger(mocap_data.value, Trigger(imu_test0.value, 1))
        IN /\ Abs((k - 1) * SamplePeriod - PaddingTicks) <= SamplePeriod
           /\ Abs(mocap_data.value.index[k]) <= SamplePeriod

\* the boundaries of the selected test are the timestamps of the session rows
\* start_idx and stop_idx (counted from 0)
TimestampsAtSampleIndices ==
    LET session == session_df.value
    IN /\ SelectedTest.start_idx + 1 \in 1..NRows(session)
       /\ SelectedTest.stop_idx + 1 \in 1..NRows(session)
       /\ session.index[SelectedTest.start_idx + 1] = SelectedTest.start
       /\ session.index[SelectedTest.stop_idx + 1] = SelectedTest.stop

\* the session was recorded from the padded start to the padded stop
RecordingCoversPadding ==
    LET session == session_df.value
    IN /\ NRows(session) > 0
       /\ session.index[1] <= SelectedTest.start - PaddingTicks
       /\ SelectedTest.stop + PaddingTicks <= session.index[NRows(session)]

\* int(actual_length + 2 * padding * 204.8)
ExpectedLength ==
    IntTrunc((SelectedTest.stop_idx - SelectedTest.start_idx) * SamplePeriod
                 + 2 * PaddingTicks, SamplePeriod)

\* C12: for a session sampled at 204.8 Hz whose test boundaries are the
\* timestamps of the samples start_idx and stop_idx and whose recording covers
\* the padded interval, the number of rows of SensorPositionDatasetMocap.data
\* with padding p >= 0 differs by at most one from
\* int((stop_idx - start_idx) + 2 * p * 204.8).
C12_PaddedLengthWithinOne ==
    (/\ pc = "window_done"
     /\ IsOk(session_df)
     /\ facade.data_padding_s >= 0
     /\ TimestampsAtSampleIndices
     /\ RecordingCoversPadding) =>
        /\ IsOk(mocap_data)
        /\ Abs(NRows(mocap_data.value) - ExpectedLength) <= 1

\* a test of seven samples padded by one second on both sides: 204 samples
\* before it and 204 after it
C12_Witness ==
    /\ pc = "window_done"
    /\ IsOk(session_df) /\ IsOk(mocap_data)
    /\ facade.data_padding_s = 1
    /\ TimestampsAtSampleIndices
    /\ RecordingCoversPadding
    /\ SelectedTest.stop_idx - SelectedTest.start_idx = 6
    /\ NRows(mocap_data.value) = 7 + 2 * 204
    /\ ExpectedLength = 6 + 409

---------------------------------------------------------------------------
(* The labels of one gait test                                             *)

MaxLabels == 2

\* the paddings of the facade: data_padding_s is any integer
Paddings == (-1)..MaxPadding

\* two tests that follow each other, in samples of the session
LabelMetaData ==
    [imu_tests |->
        [t \in {"fast_10", "slow_20"} |->
            LET start_idx == IF t = "fast_10" THEN 2 ELSE 6
                stop_idx == IF t = "fast_10" THEN 6 ELSE 7
            IN [start |-> start_idx * SamplePeriod, stop |-> stop_idx * SamplePeriod,
                start_idx |-> start_idx, stop_idx |-> stop_idx]]]

\* label borders before, on, between and after the borders of the tests
LabelPoints == {1, 2, 4, 6, 7}

Strides == {st \in [start : LabelPoints, end : LabelPoints, foot : {"left", "right"}] :
                st.start < st.end}

\* the files: up to MaxLabels strides, numbered in the order of the file
LabelFiles ==
    {[k \in 1..Len(f) |-> [s_id |-> k, start |-> f[k].start, end |-> f[k].end,
                           foot |-> f[k].foot]] :
        f \in UNION {[1..n -> Strides] : n \in 0..MaxLabels}}

LabelsInit ==
    /\ pc = "labels"
    /\ raw_df = Idle
    /\ meta_data = LabelMetaData
    /\ manual_labels \in LabelFiles
    /\ mocap_test = Idle
    /\ facade \in {MocapFacade("4d91", t, padding_s, TRUE) :
                        t \in {"fast_10", "slow_20"}, padding_s \in Paddings}
    /\ labels_for_test = Pending
    /\ stride_list = Pending
    /\ RotIdle /\ AlignIdle /\ WindowIdle /\ FacadeIdle /\ FolderIdle

\* get_manual_labels_for_test(participant, test)
GetManualLabelsForTest ==
    /\ pc = "labels"
    /\ labels_for_test' = get_manual_labels_for_test(meta_data, facade.index[1].test,
                                                      manual_labels)
    /\ pc' = "labels_strides"
    /\ UNCHANGED <<stride_list, notLabelVars>>

\* SensorPositionDatasetMocap.segmented_stride_list_
SegmentedStrideList ==
    /\ pc = "labels_strides"
    /\ stride_list' = segmented_stride_list_(facade, meta_data, manual_labels)
    /\ pc' = "labels_done"
    /\ UNCHANGED <<labels_for_test, notLabelVars>>

LabelsNext == GetManualLabelsForTest \/ SegmentedStrideList

SpecLabels == LabelsInit /\ [][LabelsNext]_vars

---------------------------------------------------------------------------
(* Claims about the labels                                                 *)

\* the label of the stride list that carries the id s_id
StrideOf(sl, s_id) == sl.rows[CHOOSE k \in 1..Len(sl.index) : sl.index[k] = s_id]

\* the labels of the file that lie inside the bounds of the selected test
InsideTest(l) == SelectedTest.start_idx <= l.start /\ l.end <= SelectedTest.stop_idx

\* C7 (as stated): every label (s, e) inside the test bounds is returned by
\* segmented_stride_list_ with the bounds (s - start_idx + p * 204.8,
\* e - start_idx + p * 204.8); compared in fifths of a sample.
C7_LabelBoundsExactPadding ==
    (pc = "labels_done" /\ IsOk(stride_list)) =>
        \A i \in 1..Len(manual_labels) :
            LET l == manual_labels[i]
            IN InsideTest(l) =>
                /\ l.s_id \in Range(stride_list.value.index)
                /\ SamplePeriod * StrideOf(stride_list.value, l.s_id).start
                     = SamplePeriod * (l.start - SelectedTest.start_idx) + PaddingTicks
                /\ SamplePeriod * StrideOf(stride_list.value, l.s_id).end
                     = SamplePeriod * (l.end - SelectedTest.start_idx) + PaddingTicks

\* C7 (amended): every label (s, e) inside the test bounds is returned by
\* segmented_stride_list_ with the bounds (s - start_idx + int(p * 204.8),
\* e - start_idx + int(p * 204.8)), int rounding towards zero: the padding is
\* added in whole samples, 204 for p = 1.
C7_LabelBoundsTruncatedPadding ==
    (pc = "labels_done" /\ IsOk(stride_list)) =>
        \A i \in 1..Len(manual_labels) :
            LET l == manual_labels[i]
                shift == CHOOSE n \in (-Abs(PaddingTicks))..Abs(PaddingTicks) :
                            /\ Abs(SamplePeriod * n) <= Abs(PaddingTicks)
                            /\ Abs(PaddingTicks - SamplePeriod * n) < SamplePeriod
            IN InsideTest(l) =>
                /\ l.s_id \in Range(stride_list.value.index)
                /\ StrideOf(stride_list.value, l.s_id).start
                     = l.start - SelectedTest.start_idx + shift
                /\ StrideOf(stride_list.value, l.s_id).end
                     = l.end - SelectedTest.start_idx + shift

\* a stride list with a padding of one second and a label inside the test
C7_Witness ==
    /\ pc = "labels_done"
    /\ IsOk(stride_list)
    /\ facade.data_padding_s = 1
    /\ \E i \in 1..Len(manual_labels) :
          /\ InsideTest(manual_labels[i])
          /\ StrideOf(stride_list.value, manual_labels[i].s_id).start
               = manual_labels[i].start - SelectedTest.start_idx + 204

\* the labels of the file at the positions of `keep`, start_idx subtracted
Rebased(keep) ==
    LET pos == SelectSeq([i \in 1..Len(manual_labels) |-> i], LAMBDA i : i \in keep)
    IN [k \in 1..Len(pos) |->
          [s_id |-> manual_labels[pos[k]].s_id,
           start |-> manual_labels[pos[k]].start - SelectedTest.start_idx,
           end |-> manual_labels[pos[k]].end - SelectedTest.start_idx,
           foot |-> manual_labels[pos[k]].foot]]

\* C8 (as stated): get_manual_labels_for_test keeps exactly the labels whose
\* start and end both lie in the half-open range [start_idx, stop_idx), and
\* subtracts start_idx from the start and end of every kept label.
C8_KeepsHalfOpenRange ==
    pc \in {"labels_strides", "labels_done"} =>
        /\ IsOk(labels_for_test)
        /\ labels_for_test.value =
              Rebased({i \in 1..Len(manual_labels) :
                          /\ SelectedTest.start_idx <= manual_labels[i].start
                          /\ manual_labels[i].start < SelectedTest.stop_idx
                          /\ SelectedTest.start_idx <= manual_labels[i].end
                          /\ manual_labels[i].end < SelectedTest.stop_idx})

\* C8 (amended): get_manual_labels_for_test keeps exactly the labels with
\* start >= start_idx and end <= stop_idx, a label that ends on stop_idx
\* included, in the order of the file, and subtracts start_idx from the start
\* and end of every kept label.
C8_KeepsClosedRange ==
    pc \in {"labels_strides", "labels_done"} =>
        /\ IsOk(labels_for_test)
        /\ labels_for_test.value =
              Rebased({i \in 1..Len(manual_labels) :
                          /\ SelectedTest.start_idx <= manual_labels[i].start
                          /\ manual_labels[i].end <= SelectedTest.stop_idx})

\* a kept label that ends on stop_idx, after a label that is discarded
C8_Witness ==
    /\ pc = "labels_done"
    /\ IsOk(labels_for_test)
    /\ Len(manual_labels) = 2
    /\ Len(labels_for_test.value) = 1
    /\ manual_labels[2].end = SelectedTest.stop_idx
    /\ manual_labels[2].start > SelectedTest.start_idx
    /\ labels_for_test.value[1].s_id = 2
    /\ labels_for_test.value[1].end = SelectedTest.stop_idx - SelectedTest.start_idx

---------------------------------------------------------------------------
(* The properties of a facade accessed on a selection of rows              *)

MaxSelected == 2

\* create_index of the Mocap facade for two participants with two tests
\* each, and of the Segmentation facade
MocapIndex ==
    <<[participant |-> "4d91", test |-> "fast_10"], [participant |-> "4d91", test |-> "slow_20"],
      [participant |-> "8d60", test |-> "fast_10"], [participant |-> "8d60", test |-> "slow_20"]>>

SegmentationIndex == <<[participant |-> "4d91"], [participant |-> "8d60"]>>

\* get_subset: up to MaxSelected rows of the index, in index order
Selections(index) ==
    {[k \in 1..Len(pos) |-> index[pos[k]]] :
        pos \in {q \in UNION {[1..n -> 1..Len(index)] : n \in 1..MaxSelected} :
                    \A a, b \in 1..Len(q) : a < b => q[a] < q[b]}}

Facades ==
    {[kind |-> "Mocap", data_padding_s |-> p, align_data |-> a, groupby |-> g, index |-> sel] :
        p \in 0..MaxPadding, a \in BOOLEAN, sel \in Selections(MocapIndex),
        g \in {None, <<"participant">>, <<"test">>, <<"participant", "test">>}}
    \cup
    {[kind |-> "Segmentation", data_padding_s |-> 0, align_data |-> TRUE, groupby |-> g,
      index |-> sel] :
        sel \in Selections(SegmentationIndex), g \in {None, <<"participant">>}}

\* the marker trajectories of a test, or none recorded
MarkerTables ==
    {Ok([cols |-> << <<"l_fcc", "x">>, <<"l_fcc", "y">>, <<"l_fcc", "z">> >>,
         index |-> <<0, 1>>,
         rows |-> << <<11, 12, 13>>, <<21, 22, 23>> >>]),
     Raise("FileNotFoundError")}

\* the files of the participant of the first row: a session of two samples
\* that both tests span, read with or without an error
FacadeInit ==
    /\ pc = "facade"
    /\ raw_df \in {RawSession(<<LMedial, LCavity>>, 2, upper) : upper \in BOOLEAN}
    /\ meta_data = SubjectMetaData(<<LMedial, LCavity>>, TRUE,
                        [t \in {"fast_10", "slow_20"} |-> WholeSession(2).fast_10])
    /\ manual_labels \in {<< >>,
                           <<[s_id |-> 1, start |-> 0, end |-> 1, foot |-> "left"],
                             [s_id |-> 2, start |-> 0, end |-> 1, foot |-> "right"]>>}
    /\ mocap_test \in MarkerTables
    /\ facade \in Facades
    /\ accessed = None
    /\ outcome = Pending
    /\ RotIdle /\ AlignIdle /\ WindowIdle /\ LabelIdle /\ FolderIdle

\* facade.data
AccessData ==
    /\ pc = "facade"
    /\ accessed' = "data"
    /\ outcome' = IF facade.kind = "Mocap" THEN MocapData(facade, meta_data, raw_df)
                   ELSE SegmentationData(facade, meta_data, raw_df)
    /\ pc' = "facade_done"
    /\ UNCHANGED notFacadeVars

\* facade.segmented_stride_list_
AccessSegmentedStrideList ==
    /\ pc = "facade"
    /\ accessed' = "segmented_stride_list_"
    /\ outcome' = segmented_stride_list_(facade, meta_data, manual_labels)
    /\ pc' = "facade_done"
    /\ UNCHANGED notFacadeVars

\* facade.segmented_stride_list_per_sensor_
AccessSegmentedStrideListPerSensor ==
    /\ pc = "facade"
    /\ accessed' = "segmented_stride_list_per_sensor_"
    /\ outcome' = segmented_stride_list_per_sensor_(facade, meta_data, manual_labels)
    /\ pc' = "facade_done"
    /\ UNCHANGED notFacadeVars

\* facade.mocap_events_, a property of the Mocap facade only
AccessMocapEvents ==
    /\ pc = "facade"
    /\ facade.kind = "Mocap"
    /\ accessed' = "mocap_events_"
    /\ outcome' = mocap_events_(facade)
    /\ pc' = "facade_done"
    /\ UNCHANGED notFacadeVars

\* facade.marker_position_, a property of the Mocap facade only
AccessMarkerPosition ==
    /\ pc = "facade"
    /\ facade.kind = "Mocap"
    /\ accessed' = "marker_position_"
    /\ outcome' = marker_position_(facade, mocap_test)
    /\ pc' = "facade_done"
    /\ UNCHANGED notFacadeVars

FacadeNext ==
    \/ AccessData
    \/ AccessSegmentedStrideList
    \/ AccessSegmentedStrideListPerSensor
    \/ AccessMocapEvents
    \/ AccessMarkerPosition

SpecFacade == FacadeInit /\ [][FacadeNext]_vars

---------------------------------------------------------------------------
(* Claims about the facades                                                *)

\* C10: whenever more than one row is selected, every data-producing
\* property (data, segmented_stride_list_, segmented_stride_list_per_sensor_,
\* mocap_events_, marker_position_) fails with the usage error, whatever the
\* files hold: nothing is read, and the first row is never used silently.
C10_FailsOnSeveralRows ==
    (pc = "facade_done" /\ Len(facade.index) > 1) => outcome = ValueError

\* what the check of the selection does ensure: a selection of several groups
\* (of several rows when the facade is not grouped) fails with the usage
\* error, whatever the files hold
SeveralGroupsFail ==
    (pc = "facade_done" /\ Len(Groups(facade)) > 1) => outcome = ValueError

\* a grouped facade narrowed to one group of several rows returns the data
\* of the first row
FirstRowOfGroupUsed ==
    /\ pc = "facade_done"
    /\ accessed = "data"
    /\ Len(facade.index) > 1
    /\ IsOk(outcome)
    /\ outcome = MocapData([facade EXCEPT !.index = <<facade.index[1]>>], meta_data, raw_df)

---------------------------------------------------------------------------
(* consts.py and helper.py: the data folder and the subjects in it.  A     *)
(* path is the sequence of its components; the empty path is what Python   *)
(* takes for false (None, the empty string).  file_system.dirs maps every  *)
(* directory that exists to the set of the names of its entries, and       *)
(* file_system.meta maps a subject to its meta_data.json.                  *)

\* DEFAULT_DATA = Path(__file__).parent.parent / "data"
DEFAULT_DATA == <<"package", "data">>

\* Path.is_dir
IsDir(fs, path) == path \in DOMAIN fs.dirs

\* Consts().DATA
ConstsDATA(registered, fs) ==
    IF registered # None THEN Ok(registered)
    ELSE IF IsDir(fs, DEFAULT_DATA) THEN Ok(DEFAULT_DATA)
    ELSE ValueError

\* get_data_folder with the registered folder taken first
get_data_folder_registered_first(data_folder, data_subfolder, registered, fs) ==
    Then(IF registered # None THEN Ok(registered)
         ELSE IF data_folder # None THEN Ok(data_folder)
         ELSE ConstsDATA(registered, fs), LAMBDA folder :
    IF ~IsOk(folder) THEN folder
    ELSE IF data_subfolder THEN Ok(folder.value \o <<"data">>)
    ELSE folder)

\* get_data_folder(data_folder=None, data_subfolder=True)
get_data_folder(data_folder, data_subfolder, registered, fs) ==
    Then(IF data_folder # None THEN Ok(data_folder) ELSE ConstsDATA(registered, fs),
         LAMBDA folder :
    IF ~IsOk(folder) THEN folder
    ELSE IF data_subfolder THEN Ok(folder.value \o <<"data">>)
    ELSE folder)

\* the characters of the entry names in the order of their code points
CodePoints == ".0123456789ADEMRS_abcdefghijklmnopqrstuvwxyz"

Ord(c) == CHOOSE k \in 1..Len(CodePoints) : SubSeq(CodePoints, k, k) = c

RECURSIVE NameBefore(_, _)
\* a < b for two strings
NameBefore(a, b) ==
    IF Len(a) = 0 THEN Len(b) > 0
    ELSE IF Len(b) = 0 THEN FALSE
    ELSE IF Head(a) = Head(b) THEN NameBefore(Tail(a), Tail(b))
    ELSE Ord(Head(a)) < Ord(Head(b))

RECURSIVE SortedByName(_)
\* sorted(.., key=lambda x: x.name)
SortedByName(names) ==
    IF names = {} THEN << >>
    ELSE LET first == CHOOSE x \in names : \A y \in names \ {x} : NameBefore(x, y)
         IN <<first>> \o SortedByName(names \ {first})

\* Path.glob("[!.]*"): the entries whose name does not start with a dot;
\* nothing for a directory that does not exist
Glob(fs, path) ==
    IF IsDir(fs, path) THEN {name \in fs.dirs[path] : Head(name) # "."} ELSE {}

\* get_all_subjects that never skips a recording
get_all_subjects_keeping_all(include_wrong_recording, data_folder, registered, fs) ==
    Then(get_data_folder(data_folder, TRUE, registered, fs), LAMBDA folder :
    IF ~IsOk(folder) THEN folder
    ELSE Then(SortedByName(Glob(fs, folder.value)), LAMBDA data_folders :
         IF Len(data_folders) = 0 \/ ~(\A k \in 1..Len(data_folders) : Len(data_folders[k]) \in {4, 6})
         THEN ValueError
         ELSE Ok(data_folders)))

\* list(get_all_subjects(include_wrong_recording, data_folder)): the check
\* of the folder runs before the first subject is yielded
get_all_subjects(include_wrong_recording, data_folder, registered, fs) ==
    Then(get_data_folder(data_folder, TRUE, registered, fs), LAMBDA folder :
    IF ~IsOk(folder) THEN folder
    ELSE Then(SortedByName(Glob(fs, folder.value)), LAMBDA data_folders :
         IF Len(data_folders) = 0 \/ ~(\A k \in 1..Len(data_folders) : Len(data_folders[k]) \in {4, 6})
         THEN ValueError
         ELSE Ok(SelectSeq(data_folders,
                           LAMBDA subject : ~(subject = "6dbe" /\ ~include_wrong_recording)))))

\* list(get_all_tests(subject_id, data_folder))
get_all_tests(subject_id, fs) == fs.meta[subject_id].mocap_test_start

\* SensorPositionDatasetSegmentation.create_index and
\* SensorPositionDatasetMocap.create_index
create_index(f, registered, fs) ==
    Then(get_all_subjects(f.include_wrong_recording, f.data_folder, registered, fs),
         LAMBDA subjects :
    IF ~IsOk(subjects) THEN subjects
    ELSE IF f.kind = "Segmentation"
    THEN Ok([k \in 1..Len(subjects.value) |-> [participant |-> subjects.value[k]]])
    ELSE Ok(Flatten([k \in 1..Len(subjects.value) |->
                LET p == subjects.value[k]
                    tests == get_all_tests(p, fs)
                IN [j \in 1..Len(tests) |-> [participant |-> p, test |-> tests[j]]]])))

---------------------------------------------------------------------------
(* The subjects of a data folder, after any calls of set_data_folder       *)

MaxEntries == 3

\* the names an entry of the data folder can have
EntryNames == {".git", ".DS_Store", "4d91", "6dbe", "6dbe_2", "README.md"}

Listings == {names \in SUBSET EntryNames : Cardinality(names) <= MaxEntries}

FolderA == <<"a">>
FolderB == <<"b">>

\* mocap_test_start of the meta_data.json of each subject
SubjectFiles ==
    [subject \in {name \in EntryNames : Head(name) # "."} |->
        [mocap_test_start |->
            CASE subject = "4d91" -> <<"fast_10", "slow_20">>
              [] subject = "6dbe" -> <<"fast_10">>
              [] subject = "6dbe_2" -> <<"slow_20", "fast_10", "normal_10">>
              [] OTHER -> << >>]]

\* the repository of the dataset at FolderA, with any entries in its data
\* folder or without one; another one at FolderB; the default folder of the
\* package, there or not
FileSystems ==
    {[dirs |-> a @@ b @@ d, meta |-> SubjectFiles] :
        a \in {[path \in {FolderA, FolderA \o <<"data">>} |->
                    IF path = FolderA THEN {"data"} ELSE names] : names \in Listings}
              \cup {[path \in {FolderA} |-> {}]},
        b \in {[path \in {FolderB, FolderB \o <<"data">>} |->
                    IF path = FolderB THEN {"data"} ELSE {"4d91"}]},
        d \in {<< >>,
               [path \in {DEFAULT_DATA, DEFAULT_DATA \o <<"data">>} |->
                    IF path = DEFAULT_DATA THEN {"data"} ELSE {"6dbe", "6dbe_2"}]}}

FolderInit ==
    /\ pc = "folder"
    /\ _DATA = None
    /\ file_system \in FileSystems
    /\ facade \in {[kind |-> k, data_folder |-> f, include_wrong_recording |-> i] :
                      k \in {"Segmentation", "Mocap"}, f \in {None, FolderA, FolderB},
                      i \in BOOLEAN}
    /\ accessed = None
    /\ outcome = Pending
    /\ raw_df = Idle /\ meta_data = Idle /\ manual_labels = Idle /\ mocap_test = Idle
    /\ RotIdle /\ AlignIdle /\ WindowIdle /\ LabelIdle

\* set_data_folder(path)
SetDataFolder ==
    /\ pc = "folder"
    /\ \E path \in {None, FolderA, FolderB} : _DATA' = path
    /\ UNCHANGED <<pc, file_system, rotVars, alignVars, worldVars, windowVars, labelVars,
                   facadeVars>>

\* list(get_all_subjects(include_wrong_recording, data_folder))
GetAllSubjects ==
    /\ pc = "folder"
    /\ accessed' = "get_all_subjects"
    /\ outcome' = get_all_subjects(facade.include_wrong_recording, facade.data_folder,
                                   _DATA, file_system)
    /\ pc' = "folder_done"
    /\ UNCHANGED notFacadeVars

\* facade.index of a facade that was not narrowed: create_index()
CreateIndex ==
    /\ pc = "folder"
    /\ accessed' = "index"
    /\ outcome' = create_index(facade, _DATA, file_system)
    /\ pc' = "folder_done"
    /\ UNCHANGED notFacadeVars

FolderNext == SetDataFolder \/ GetAllSubjects \/ CreateIndex

SpecFolder == FolderInit /\ [][FolderNext]_vars

---------------------------------------------------------------------------
(* Claims about the subjects of a data folder                              *)

\* the entries of the data folder the facade was given
GivenEntries == file_system.dirs[facade.data_folder \o <<"data">>]

\* the facade was given a data folder whose entries are N subject folders
GivenSubjectFolders ==
    /\ facade.data_folder # None
    /\ IsDir(file_system, facade.data_folder \o <<"data">>)
    /\ GivenEntries # {}
    /\ \A name \in GivenEntries : Head(name) # "." /\ Len(name) \in {4, 6}

\* the subjects the facade includes
Included == {name \in GivenEntries : name = "6dbe" => facade.include_wrong_recording}

\* C11: for a data folder with N subject folders of which one is the
\* excluded recording "6dbe", exactly N-1 participants are exposed when
\* include_wrong_recording is off and N when it is on (N in both cases when
\* "6dbe" is not among them); the index of the segmentation facade has one
\* row per included subject, and the index of the mocap facade one row per
\* (included subject, test of the mocap_test_start of that subject).
C11_RowsPerIncludedSubject ==
    (pc = "folder_done" /\ GivenSubjectFolders) =>
        /\ IsOk(outcome)
        /\ IsInjective(outcome.value)
        /\ accessed = "get_all_subjects" =>
            /\ Range(outcome.value) = Included
            /\ Len(outcome.value) =
                 IF "6dbe" \in GivenEntries /\ ~facade.include_wrong_recording
                 THEN Cardinality(GivenEntries) - 1 ELSE Cardinality(GivenEntries)
        /\ (accessed = "index" /\ facade.kind = "Segmentation") =>
            Range(outcome.value) = {[participant |-> name] : name \in Included}
        /\ (accessed = "index" /\ facade.kind = "Mocap") =>
            Range(outcome.value) =
                UNION {{[participant |-> name, test |-> t] :
                            t \in Range(file_system.meta[name].mocap_test_start)} :
                       name \in Included}

\* the index of a mocap facade that leaves out "6dbe", one of three subject
\* folders, and lists the tests of the two others
C11_Witness ==
    /\ pc = "folder_done"
    /\ GivenSubjectFolders
    /\ GivenEntries = {"4d91", "6dbe", "6dbe_2"}
    /\ ~facade.include_wrong_recording
    /\ accessed = "index"
    /\ facade.kind = "Mocap"
    /\ IsOk(outcome)
    /\ Len(outcome.value) = 5
    /\ \A k \in 1..5 : outcome.value[k].participant # "6dbe"

---------------------------------------------------------------------------
(* Claims about the resolution of the data folder                          *)

\* the folder that is used: the argument, else the registered folder, else
\* the default folder if it exists
ResolvedFolder ==
    IF facade.data_folder # None THEN Ok(facade.data_folder)
    ELSE IF _DATA # None THEN Ok(_DATA)
    ELSE IF DEFAULT_DATA \in DOMAIN file_system.dirs THEN Ok(DEFAULT_DATA)
    ELSE ValueError

\* the entries of the data directory of the resolved folder, none if the
\* directory does not exist
ResolvedEntries ==
    LET path == ResolvedFolder.value \o <<"data">>
    IN IF path \in DOMAIN file_system.dirs THEN file_system.dirs[path] ELSE {}

\* the call that was made, with another folder registered
OutcomeWith(registered) ==
    IF accessed = "index" THEN create_index(facade, registered, file_system)
    ELSE get_all_subjects(facade.include_wrong_recording, facade.data_folder,
                          registered, file_system)

\* a data_folder argument takes precedence over the registered folder
ArgumentTakesPrecedence ==
    facade.data_folder # None =>
        \A registered \in {None, FolderA, FolderB} : outcome = OutcomeWith(registered)

\* C15 as stated: the call fails with ValueError, and yields no row, whenever
\* no data_folder is given, none is registered and there is no default folder,
\* or the resolved directory is empty or contains an entry whose name length
\* is not 4 or 6; a data_folder argument takes precedence over the registered
\* folder.
C15_FailsOnAnyOddEntry ==
    pc = "folder_done" =>
        /\ ~IsOk(ResolvedFolder) => outcome = ValueError
        /\ (/\ IsOk(ResolvedFolder)
            /\ \/ ResolvedEntries = {}
               \/ \E name \in ResolvedEntries : Len(name) \notin {4, 6}) =>
                outcome = ValueError
        /\ ArgumentTakesPrecedence

\* C15: after any calls of set_data_folder, the call fails with ValueError,
\* and yields no row, exactly when no data_folder is given, none is
\* registered and there is no default folder, or the resolved directory has
\* no entry whose name does not start with a dot, or has such an entry whose
\* name length is not 4 or 6; entries whose name starts with a dot are not
\* looked at.  A data_folder argument takes precedence over the registered
\* folder.
C15_FailsOnOddVisibleEntry ==
    pc = "folder_done" =>
        /\ ~IsOk(ResolvedFolder) => outcome = ValueError
        /\ IsOk(ResolvedFolder) =>
              LET visible == {name \in ResolvedEntries : Head(name) # "."}
              IN (outcome = ValueError) <=>
                    \/ visible = {}
                    \/ \E name \in visible : Len(name) \notin {4, 6}
        /\ ArgumentTakesPrecedence

\* a given folder with a malformed entry fails although a well-formed folder
\* is registered
C15_Witness ==
    /\ pc = "folder_done"
    /\ facade.data_folder = FolderA
    /\ _DATA = FolderB
    /\ "README.md" \in ResolvedEntries
    /\ outcome = ValueError
    /\ IsOk(OutcomeWith(None)) = FALSE
    /\ IsOk(get_all_subjects(FALSE, None, _DATA, file_system))

=============================================================================
